---------------------------- MODULE Spec2Model ----------------------------
(* Model of src/llm_mcp_web_automation.py: persona-conditioned task        *)
(* generation (TaskGenerationEngine), the browser automation handlers      *)
(* (TiraAutomation) and the driving loop (InteractiveDemo).                 *)
EXTENDS Integers, Sequences, FiniteSets, TLC

(***************************************************************************)
(* Bounds of the model                                                     *)
(***************************************************************************)
\* most task records a text-generation response carries
MaxLLMTasks == 2
\* most cart lines the page reports to view_cart
MaxObserved == 1
\* most personality traits of a persona in the persona specification
MaxTraits == 2

(***************************************************************************)
(* SeleniumFunctions.get_catalog: the keys of the catalog                  *)
(***************************************************************************)
get_catalog ==
    { "search_products", "extract_products", "hover_add_to_cart",
      "click_product_details", "add_from_details", "view_cart",
      "remove_from_cart", "complete_session" }

(***************************************************************************)
(* Personas (CustomPersona).  Traits are words; " ".join(traits).lower()   *)
(* contains a keyword without blanks iff one lower-cased trait contains it.*)
(***************************************************************************)
\* the trait words of the model
TraitWords ==
    { "curious", "budget", "Budget-conscious", "cheap", "luxury",
      "indecisive", "trendy", "skincare", "gift" }

\* str.lower() on the trait words of the model
Lower(w) ==
    CASE w = "Budget-conscious" -> "budget-conscious"
      [] OTHER -> w

\* the keywords of the source that are substrings of a lower-cased trait word
SubKeywords(w) ==
    CASE w = "budget"           -> { "budget" }
      [] w = "budget-conscious" -> { "budget" }
      [] w = "cheap"            -> { "cheap" }
      [] w = "luxury"           -> { "luxury" }
      [] w = "indecisive"       -> { "indecis" }
      [] w = "trendy"           -> { "trendy" }
      [] w = "skincare"         -> { "skincare" }
      [] w = "gift"             -> { "gift" }
      [] OTHER                  -> { }

\* keyword in word (substring test) on the lower-cased trait words
Contains(w, kw) == kw \in SubKeywords(w)

\* kw in " ".join(traits).lower()
InTraitText(traits, kw) ==
    \E i \in 1..Len(traits) : Contains(Lower(traits[i]), kw)

\* any(word in trait_text for word in words)
AnyIn(traits, words) == \E kw \in words : InTraitText(traits, kw)

\* the elif chain with the luxury test moved before the budget test
_determine_persona_type_LuxuryFirst(traits, decision_style) ==
    IF AnyIn(traits, { "luxury", "premium", "high-end", "quality" })
    THEN "luxury_buyer"
    ELSE IF AnyIn(traits, { "budget", "cheap", "affordable", "price" })
    THEN "budget_shopper"
    ELSE IF AnyIn(traits, { "indecis", "uncertain", "changeable" })
    THEN "indecisive_shopper"
    ELSE IF AnyIn(traits, { "beauty", "makeup", "trendy", "impulsive" })
    THEN "beauty_enthusiast"
    ELSE IF AnyIn(traits, { "skincare", "routine", "organic" })
    THEN "skincare_focused"
    ELSE IF AnyIn(traits, { "gift", "birthday", "present" })
    THEN "gift_shopper"
    ELSE "custom"

\* PersonaCreator._determine_persona_type
_determine_persona_type(traits, decision_style) ==
    IF AnyIn(traits, { "budget", "cheap", "affordable", "price" })
    THEN "budget_shopper"
    ELSE IF AnyIn(traits, { "luxury", "premium", "high-end", "quality" })
    THEN "luxury_buyer"
    ELSE IF AnyIn(traits, { "indecis", "uncertain", "changeable" })
    THEN "indecisive_shopper"
    ELSE IF AnyIn(traits, { "beauty", "makeup", "trendy", "impulsive" })
    THEN "beauty_enthusiast"
    ELSE IF AnyIn(traits, { "skincare", "routine", "organic" })
    THEN "skincare_focused"
    ELSE IF AnyIn(traits, { "gift", "birthday", "present" })
    THEN "gift_shopper"
    ELSE "custom"

DecisionStyles == { "quick_impulsive", "research_heavy" }

\* the decision styles create_custom_persona offers
AllDecisionStyles ==
    { "quick_impulsive", "research_heavy", "price_focused", "quality_focused",
      "indecisive", "balanced" }

\* CustomPersona(...) as create_custom_persona builds it
MakePersona(traits, style, budget) ==
    [ type |-> _determine_persona_type(traits, style),
      decision_style |-> style,
      budget_range   |-> budget,
      personality_traits |-> traits,
      interests      |-> <<"lipstick">>,
      shopping_goals |-> <<"explore products">> ]

Personas ==
    { MakePersona(tr, st, <<500, 5000>>) :
        tr \in { <<"curious">>, <<"curious", "Budget-conscious">> },
        st \in DecisionStyles }

(***************************************************************************)
(* LLMTask records and the rule-based generator                            *)
(***************************************************************************)
LLMTask(name, functions) ==
    [ task_name |-> name, expected_functions |-> functions ]

\* the budget test on the traits as typed, without .lower()
_rule_generate_tasks_NoLower(p) ==
    LET first ==
          IF p.decision_style = "quick_impulsive"
          THEN LLMTask("Quick Product Discovery",
                       <<"search_products", "extract_products", "hover_add_to_cart">>)
          ELSE LLMTask("Careful Product Research",
                       <<"search_products", "extract_products", "click_product_details">>)
        second ==
          IF \E i \in 1..Len(p.personality_traits) :
                 Contains(p.personality_traits[i], "budget")
          THEN << LLMTask("Budget-Conscious Shopping",
                          <<"search_products", "view_cart">>) >>
          ELSE << >>
    IN  [ raised |-> FALSE, tasks |-> <<first>> \o second ]

_rule_generate_tasks(p) ==
    LET first ==
          IF p.decision_style = "quick_impulsive"
          THEN LLMTask("Quick Product Discovery",
                       <<"search_products", "extract_products", "hover_add_to_cart">>)
          ELSE LLMTask("Careful Product Research",
                       <<"search_products", "extract_products", "click_product_details">>)
        second ==
          IF InTraitText(p.personality_traits, "budget")
          THEN << LLMTask("Budget-Conscious Shopping",
                          <<"search_products", "view_cart">>) >>
          ELSE << >>
    IN  [ raised |-> FALSE, tasks |-> <<first>> \o second ]

(***************************************************************************)
(* The text-generation capability.  A response is                          *)
(*   none     no client configured                                         *)
(*   throw    chat.completions.create raises                               *)
(*   nomatch  the text holds no {...}                                      *)
(*   badjson  json.loads raises on the matched text                        *)
(*   json     a JSON object; has_tasks tells whether it has a 'tasks' key  *)
(* and a task record of the response is a dict (with or without the        *)
(* 'task_name' and 'expected_functions' keys) or some other JSON value.    *)
(* "compare_prices" is a name that is no key of the catalog.               *)
(***************************************************************************)
LLMOpSeqs ==
    { << >>,
      <<"hover_add_to_cart">>,
      <<"extract_products", "hover_add_to_cart", "remove_from_cart">>,
      <<"complete_session", "search_products">>,
      <<"view_cart", "remove_from_cart", "complete_session">>,
      <<"search_products", "click_product_details", "add_from_details">>,
      <<"compare_prices", "extract_products", "extract_products">> }

TaskDict(fs) ==
    [ is_dict |-> TRUE, has_name |-> TRUE, task_name |-> "LLM Task",
      has_functions |-> TRUE, expected_functions |-> fs ]

LLMTaskData ==
    { TaskDict(fs) : fs \in LLMOpSeqs }
    \cup { [ is_dict |-> TRUE, has_name |-> FALSE, task_name |-> "",
             has_functions |-> FALSE, expected_functions |-> << >> ],
           [ is_dict |-> FALSE, has_name |-> FALSE, task_name |-> "",
             has_functions |-> FALSE, expected_functions |-> << >> ] }

SeqsUpTo(S, n) == UNION { [1..k -> S] : k \in 0..n }

LLMResponses ==
    { [ kind |-> k, has_tasks |-> FALSE, tasks |-> << >> ]
        : k \in { "none", "throw", "nomatch", "badjson", "json" } }
    \cup { [ kind |-> "json", has_tasks |-> TRUE, tasks |-> ts ]
             : ts \in SeqsUpTo(LLMTaskData, MaxLLMTasks) }

\* LLMTask(...) built from one task_data with the .get defaults
TaskFromData(d) ==
    LLMTask(IF d.has_name THEN d.task_name ELSE "Shopping Task",
            IF d.has_functions THEN d.expected_functions
                               ELSE <<"search_products">>)

\* the call of the capability placed outside the try block
_llm_generate_tasks_NoTry(p, r) ==
    IF r.kind = "throw"
    THEN [ raised |-> TRUE, tasks |-> << >> ]
    ELSE IF r.kind \in { "nomatch", "badjson" }
    THEN _rule_generate_tasks(p)
    ELSE LET data == IF r.has_tasks THEN r.tasks ELSE << >>
         IN  IF \E i \in 1..Len(data) : ~data[i].is_dict
             THEN _rule_generate_tasks(p)
             ELSE [ raised |-> FALSE,
                    tasks  |-> [ i \in 1..Len(data) |-> TaskFromData(data[i]) ] ]

_llm_generate_tasks(p, r) ==
    IF r.kind \in { "throw", "nomatch", "badjson" }
    THEN _rule_generate_tasks(p)
    ELSE \* data.get('tasks', []) ; task_data.get raises on a non-dict
         LET data == IF r.has_tasks THEN r.tasks ELSE << >>
         IN  IF \E i \in 1..Len(data) : ~data[i].is_dict
             THEN _rule_generate_tasks(p)
             ELSE [ raised |-> FALSE,
                    tasks  |-> [ i \in 1..Len(data) |-> TaskFromData(data[i]) ] ]

generate_shopping_tasks(p, r) ==
    IF r.kind # "none"
    THEN _llm_generate_tasks(p, r)
    ELSE _rule_generate_tasks(p)

(***************************************************************************)
(* The page.  A price text is a sequence of characters: RUPEE is the       *)
(* currency sign, SP a blank, COMMA a comma, a digit, or "x" for any       *)
(* other character.                                                        *)
(***************************************************************************)
DigitSeq == << "0", "1", "2", "3", "4", "5", "6", "7", "8", "9" >>
Digits == { DigitSeq[i] : i \in 1..Len(DigitSeq) }
DigitVal(c) == (CHOOSE i \in 1..Len(DigitSeq) : DigitSeq[i] = c) - 1

IsDigitAt(t, j) == j <= Len(t) /\ t[j] \in Digits

RECURSIVE SkipSpaces(_, _)
SkipSpaces(t, j) ==
    IF j <= Len(t) /\ t[j] = "SP" THEN SkipSpaces(t, j + 1) ELSE j

\* int(group(1).replace(',', '')) of (\d+(?:,\d+)*) starting at digit j
RECURSIVE GroupValue(_, _, _)
GroupValue(t, j, acc) ==
    IF IsDigitAt(t, j)
    THEN GroupValue(t, j + 1, acc * 10 + DigitVal(t[j]))
    ELSE IF j <= Len(t) /\ t[j] = "COMMA" /\ IsDigitAt(t, j + 1)
         THEN GroupValue(t, j + 1, acc)
         ELSE acc

\* re.search(r'RUPEE\s*(\d+(?:,\d+)*)', text): leftmost match, else price 0
ParsePrice(t) ==
    LET starts == { i \in 1..Len(t) :
                      t[i] = "RUPEE" /\ IsDigitAt(t, SkipSpaces(t, i + 1)) }
    IN  IF starts = {} THEN 0
        ELSE LET i == CHOOSE k \in starts : \A m \in starts : k <= m
             IN  GroupValue(t, SkipSpaces(t, i + 1), 0)

\* a product card of the page: is_displayed(), and whether the name and the
\* price element are found inside it
Card(n, txt) ==
    [ displayed |-> TRUE, has_name |-> TRUE, name |-> n,
      has_price |-> TRUE, price_text |-> txt ]

T1200 == << "RUPEE", "1", "COMMA", "2", "0", "0" >>
T5000 == << "x", "RUPEE", "SP", "5", "0", "0", "0" >>
T6000 == << "RUPEE", "6", "0", "0", "0" >>
TSold == << "x", "x" >>

Hidden(c)  == [ c EXCEPT !.displayed = FALSE ]
NoPrice(c) == [ c EXCEPT !.has_price = FALSE ]

\* the card lists a page of the storefront may show
Pages ==
    { << >>,
      << Card("Matte Lipstick", T1200) >>,
      << Card("Night Serum", T6000) >>,
      << Card("Night Serum", T6000), Card("Matte Lipstick", T1200) >>,
      << Hidden(Card("Banner", T6000)), NoPrice(Card("Gift Box", TSold)),
         Card("Kajal", TSold), Card("Perfume", T5000) >>,
      << Card("Perfume", T5000), Card("P2", T1200), Card("P3", T1200),
         Card("P4", T1200), Card("P5", T1200), Card("P6", T1200),
         Card("Night Serum", T6000) >> }

\* the card lists the homepage may show
HomePages ==
    { << >>,
      << Card("Night Serum", T6000), Card("Matte Lipstick", T1200) >> }

\* [:6] of the displayed cards
VisibleCap == 6

RECURSIVE DisplayedFrom(_, _)
DisplayedFrom(cs, i) ==
    IF i > Len(cs) THEN << >>
    ELSE (IF cs[i].displayed THEN << i >> ELSE << >>) \o DisplayedFrom(cs, i + 1)

\* the displayed cards without the [:6]
visible_cards_Uncapped(cs) == DisplayedFrom(cs, 1)

visible_cards(cs) ==
    LET d == DisplayedFrom(cs, 1)
    IN  SubSeq(d, 1, IF Len(d) < VisibleCap THEN Len(d) ELSE VisibleCap)

\* name_elem.text.strip()[:50] + "..." (the names of the pages here are
\* shorter than 50 characters)
ProductName(text) == text \o "..."

\* the loop of extract_products over enumerate(visible_cards): a card whose
\* name or price element is missing raises and is skipped
RECURSIVE ProductsFrom(_, _, _)
ProductsFrom(cs, vis, k) ==
    IF k > Len(vis) THEN << >>
    ELSE LET c == cs[vis[k]]
         IN  (IF c.has_name /\ c.has_price
              THEN << [ name |-> ProductName(c.name), price |-> ParsePrice(c.price_text),
                        element |-> vis[k], index |-> k - 1 ] >>
              ELSE << >>) \o ProductsFrom(cs, vis, k + 1)

ExtractedProducts(cs) == ProductsFrom(cs, visible_cards(cs), 1)

(***************************************************************************)
(* State                                                                   *)
(***************************************************************************)
VARIABLES
    persona,           \* the CustomPersona of the session
    llm,               \* what the text-generation capability answered
    tasks,             \* the list generate_shopping_tasks returned
    pc,                \* position in run_interactive_session
    ti,                \* 1-based index of the task in execution
    oi,                \* 1-based position in its expected_functions
    driver,            \* "none", "open" (webdriver.Chrome created), "quit"
    url,               \* kind of the page the browser shows
    cards,             \* the product cards of that page
    current_products,  \* TiraAutomation.current_products
    stats,             \* TiraAutomation.stats
    dispatched,        \* number of operations dispatched to a handler so far
    started,           \* the tasks _execute_task was called for
    last,              \* what the latest step of the driving loop did
    summary            \* the final statistics run_interactive_session prints

vars == << persona, llm, tasks, pc, ti, oi, driver, url, cards,
           current_products, stats, dispatched, started, last, summary >>

NoStep ==
    [ op |-> "none", pos |-> <<0, 0>>, page |-> "none", result |-> "none",
      clicked |-> FALSE, item_count |-> -1,
      before |-> [ actions |-> 0, success |-> 0, cart_items |-> 0 ],
      prev |-> << "none", "none" >> ]

NoSummary ==
    [ emitted |-> FALSE, error |-> FALSE, actions |-> 0, rate |-> 0,
      cart_items |-> 0 ]

Init ==
    /\ persona \in Personas
    /\ llm = [ kind |-> "none", has_tasks |-> FALSE, tasks |-> << >> ]
    /\ tasks = << >>
    /\ pc = "start"
    /\ ti = 0
    /\ oi = 0
    /\ driver = "none"
    /\ url = "none"
    /\ cards = << >>
    /\ current_products = << >>
    /\ stats = [ actions |-> 0, success |-> 0, cart_items |-> 0 ]
    /\ dispatched = 0
    /\ started = {}
    /\ last = NoStep
    /\ summary = NoSummary

\* TiraAutomation._update_stats
_update_stats(st, success) ==
    [ st EXCEPT !.actions = @ + 1,
                !.success = IF success THEN @ + 1 ELSE @ ]

(***************************************************************************)
(* run_interactive_session, lines 666-681: generation and browser setup    *)
(***************************************************************************)
Generate ==
    /\ pc = "start"
    /\ \E r \in LLMResponses :
         LET g == generate_shopping_tasks(persona, r)
         IN  /\ llm' = r
             /\ tasks' = g.tasks
             /\ pc' = IF g.raised THEN "gen_raised" ELSE "generated"
    /\ UNCHANGED << persona, ti, oi, driver, url, cards, current_products,
                    stats, dispatched, started, last, summary >>

\* where the for loop over the tasks continues with task k
EnterTask(k) ==
    IF k > Len(tasks)
    THEN /\ pc' = "summary"
         /\ UNCHANGED << ti, oi, started >>
    ELSE /\ pc' = IF Len(tasks[k].expected_functions) = 0 THEN "between" ELSE "exec"
         /\ ti' = k
         /\ oi' = 1
         /\ started' = started \cup { k }

\* setup_browser: webdriver.Chrome may raise, and so may driver.get
setup_browser ==
    /\ pc = "generated"
    /\ \E outcome \in { "no_driver", "get_raises", "ready" } :
         CASE outcome = "no_driver" ->
                /\ pc' = "aborted"
                /\ UNCHANGED << driver, url, cards, ti, oi, started >>
           [] outcome = "get_raises" ->
                /\ pc' = "aborted"
                /\ driver' = "open"
                /\ UNCHANGED << url, cards, ti, oi, started >>
           [] OTHER ->
                /\ driver' = "open"
                /\ url' = "homepage"
                /\ cards' \in HomePages
                /\ EnterTask(1)
    /\ UNCHANGED << persona, llm, tasks, current_products, stats, dispatched,
                    last, summary >>

(***************************************************************************)
(* _execute_task: one iteration of the loop over expected_functions        *)
(***************************************************************************)
CurOp == tasks[ti].expected_functions[oi]

AtOp(name) == pc = "exec" /\ CurOp = name

\* the loop stays on a name whose handler reported a failure
Advance_Retry(brk) ==
    /\ IF brk
       THEN pc' = "between" /\ oi' = oi
       ELSE IF last'.result \notin { "success", "skipped" }
       THEN pc' = "exec" /\ oi' = oi
       ELSE IF oi = Len(tasks[ti].expected_functions)
       THEN pc' = "between" /\ oi' = oi
       ELSE pc' = "exec" /\ oi' = oi + 1
    /\ UNCHANGED << ti, started >>

\* the loop goes on with the next name, or ends (break, or list exhausted)
Advance(brk) ==
    /\ IF brk \/ oi = Len(tasks[ti].expected_functions)
       THEN pc' = "between" /\ oi' = oi
       ELSE pc' = "exec" /\ oi' = oi + 1
    /\ UNCHANGED << ti, started >>

\* prev: the step before; page: what the page did in the step; result: the handler's 'error', or
\* "success"; clicked: whether the handler clicked a button
StepRecord(name, pg, res, clk, cnt) ==
    [ op |-> name, pos |-> <<ti, oi>>, page |-> pg, result |-> res,
      clicked |-> clk, item_count |-> cnt, before |-> stats,
      prev |-> << last.op, last.result >> ]

Static == << persona, llm, tasks, driver, summary >>

search_products ==
    /\ AtOp("search_products")
    /\ \/ /\ url' = "search_results"
          /\ cards' \in Pages
          /\ stats' = _update_stats(stats, TRUE)
          /\ last' = StepRecord("search_products", "submitted", "success", FALSE, -1)
       \/ /\ stats' = _update_stats(stats, FALSE)
          /\ last' = StepRecord("search_products", "raises", "exception", FALSE, -1)
          /\ UNCHANGED << url, cards >>
    /\ dispatched' = dispatched + 1
    /\ Advance(FALSE)
    /\ UNCHANGED << Static, current_products >>

\* the products appended to the list instead of replacing it
products_after_extract_Append(old, cs) == old \o ExtractedProducts(cs)

\* self.current_products = products
products_after_extract(old, cs) == ExtractedProducts(cs)

extract_products ==
    /\ AtOp("extract_products")
    /\ \/ /\ current_products' = products_after_extract(current_products, cards)
          /\ last' = StepRecord("extract_products", "listed", "success", FALSE, -1)
       \/ /\ last' = StepRecord("extract_products", "raises", "exception", FALSE, -1)
          /\ UNCHANGED current_products
    /\ dispatched' = dispatched + 1
    /\ Advance(FALSE)
    /\ UNCHANGED << Static, url, cards, stats >>

\* the budget check compares with the wrong end of budget_range
OverBudget_WrongBound(product, p) == product.price < p.budget_range[1]

\* the budget check of hover_add_to_cart
OverBudget(product, p) == product.price > p.budget_range[2]

\* the cart count incremented before the add button is looked for
hover_outcome_CountFirst(st, products, p, product_index, pg) ==
    IF products = << >> \/ product_index >= Len(products)
    THEN [ stats |-> st, result |-> "Invalid product index", clicked |-> FALSE ]
    ELSE IF OverBudget(products[product_index + 1], p)
    THEN [ stats |-> st, result |-> "Over budget", clicked |-> FALSE ]
    ELSE LET added == [ st EXCEPT !.cart_items = @ + 1 ]
         IN  IF pg = "button"
             THEN [ stats |-> _update_stats(added, TRUE),
                    result |-> "success", clicked |-> TRUE ]
             ELSE IF pg = "no_button"
             THEN [ stats |-> _update_stats(added, FALSE),
                    result |-> "No add button found", clicked |-> FALSE ]
             ELSE [ stats |-> _update_stats(added, FALSE),
                    result |-> "exception", clicked |-> FALSE ]

\* hover_add_to_cart(persona, product_index) on the products and stats it
\* finds, where the page shows a visible add button ("button"), shows none
\* ("no_button"), or a driver call raises ("raises")
hover_outcome(st, products, p, product_index, pg) ==
    IF products = << >> \/ product_index >= Len(products)
    THEN [ stats |-> st, result |-> "Invalid product index", clicked |-> FALSE ]
    ELSE IF OverBudget(products[product_index + 1], p)
    THEN [ stats |-> st, result |-> "Over budget", clicked |-> FALSE ]
    ELSE IF pg = "button"
    THEN [ stats |-> _update_stats([ st EXCEPT !.cart_items = @ + 1 ], TRUE),
           result |-> "success", clicked |-> TRUE ]
    ELSE IF pg = "no_button"
    THEN [ stats |-> _update_stats(st, FALSE),
           result |-> "No add button found", clicked |-> FALSE ]
    ELSE [ stats |-> _update_stats(st, FALSE),
           result |-> "exception", clicked |-> FALSE ]

hover_add_to_cart ==
    /\ AtOp("hover_add_to_cart")
    /\ \E pg \in { "button", "no_button", "raises" } :
         LET r == hover_outcome(stats, current_products, persona, 0, pg)
         IN  /\ stats' = r.stats
             /\ last' = StepRecord("hover_add_to_cart", pg, r.result, r.clicked, -1)
    /\ dispatched' = dispatched + 1
    /\ Advance(FALSE)
    /\ UNCHANGED << Static, url, cards, current_products >>

\* view_cart storing the item count of the page as the cart count
view_cart_StoresCount ==
    /\ AtOp("view_cart")
    /\ \/ \E item_count \in 0..MaxObserved :
            /\ url' = "cart"
            /\ cards' = << >>
            /\ stats' = _update_stats([ stats EXCEPT !.cart_items = item_count ], TRUE)
            /\ last' = StepRecord("view_cart", "cart_shown", "success", FALSE, item_count)
       \/ /\ url' = "cart"
          /\ cards' = << >>
          /\ stats' = _update_stats(stats, FALSE)
          /\ last' = StepRecord("view_cart", "find_raises", "exception", FALSE, -1)
       \/ /\ stats' = _update_stats(stats, FALSE)
          /\ last' = StepRecord("view_cart", "get_raises", "exception", FALSE, -1)
          /\ UNCHANGED << url, cards >>
    /\ dispatched' = dispatched + 1
    /\ Advance(FALSE)
    /\ UNCHANGED << Static, current_products >>

view_cart ==
    /\ AtOp("view_cart")
    /\ \/ \E item_count \in 0..MaxObserved :
            /\ url' = "cart"
            /\ cards' = << >>
            /\ stats' = _update_stats(stats, TRUE)
            /\ last' = StepRecord("view_cart", "cart_shown", "success", FALSE, item_count)
       \/ /\ url' = "cart"
          /\ cards' = << >>
          /\ stats' = _update_stats(stats, FALSE)
          /\ last' = StepRecord("view_cart", "find_raises", "exception", FALSE, -1)
       \/ /\ stats' = _update_stats(stats, FALSE)
          /\ last' = StepRecord("view_cart", "get_raises", "exception", FALSE, -1)
          /\ UNCHANGED << url, cards >>
    /\ dispatched' = dispatched + 1
    /\ Advance(FALSE)
    /\ UNCHANGED << Static, current_products >>

\* the decrement without the max(0, ...)
Decrement_Unclamped(n) == n - 1

\* max(0, cart_items - 1)
Decrement(n) == IF n - 1 > 0 THEN n - 1 ELSE 0

\* the decrement moved before the test of remove_btns
remove_outcome_DecrementFirst(st, pg) ==
    LET dec == [ st EXCEPT !.cart_items = Decrement(@) ]
    IN  IF pg = "button"
        THEN [ stats |-> _update_stats(dec, TRUE),
               result |-> "success", clicked |-> TRUE ]
        ELSE IF pg = "no_buttons"
        THEN [ stats |-> dec, result |-> "No items to remove", clicked |-> FALSE ]
        ELSE [ stats |-> _update_stats(st, FALSE),
               result |-> "exception", clicked |-> FALSE ]

\* remove_from_cart(persona) on the stats it finds, where the page shows no
\* remove button ("no_buttons"), shows one that is clicked ("button"), or
\* a driver call raises ("raises")
remove_outcome(st, pg) ==
    IF pg = "button"
    THEN [ stats |-> _update_stats([ st EXCEPT !.cart_items = Decrement(@) ], TRUE),
           result |-> "success", clicked |-> TRUE ]
    ELSE IF pg = "no_buttons"
    THEN [ stats |-> st, result |-> "No items to remove", clicked |-> FALSE ]
    ELSE [ stats |-> _update_stats(st, FALSE),
           result |-> "exception", clicked |-> FALSE ]

remove_from_cart ==
    /\ AtOp("remove_from_cart")
    /\ \E pg \in { "button", "no_buttons", "raises" } :
         LET r == remove_outcome(stats, pg)
         IN  /\ stats' = r.stats
             /\ last' = StepRecord("remove_from_cart", pg, r.result, r.clicked, -1)
    /\ dispatched' = dispatched + 1
    /\ Advance(FALSE)
    /\ UNCHANGED << Static, url, cards, current_products >>

complete_session ==
    /\ AtOp("complete_session")
    /\ last' = StepRecord("complete_session", "none", "success", FALSE, -1)
    /\ dispatched' = dispatched + 1
    /\ Advance(TRUE)
    /\ UNCHANGED << Static, url, cards, current_products, stats >>

\* the names the if/elif chain of _execute_task has a branch for
Dispatchable ==
    { "search_products", "extract_products", "hover_add_to_cart",
      "view_cart", "remove_from_cart", "complete_session" }

\* the else branch counting the name as a failed action
SkipUnrecognised_Counted ==
    /\ pc = "exec"
    /\ CurOp \notin Dispatchable
    /\ last' = StepRecord(CurOp, "none", "skipped", FALSE, -1)
    /\ stats' = _update_stats(stats, FALSE)
    /\ Advance(FALSE)
    /\ UNCHANGED << Static, url, cards, current_products, dispatched >>

\* else: continue
SkipUnrecognised ==
    /\ pc = "exec"
    /\ CurOp \notin Dispatchable
    /\ last' = StepRecord(CurOp, "none", "skipped", FALSE, -1)
    /\ Advance(FALSE)
    /\ UNCHANGED << Static, url, cards, current_products, stats, dispatched >>

\* except Exception: ... break  (an exception that no handler caught)
StepRaises ==
    /\ pc = "exec"
    /\ last' = StepRecord(CurOp, "raises", "uncaught", FALSE, -1)
    /\ Advance(TRUE)
    /\ UNCHANGED << Static, url, cards, current_products, stats, dispatched >>

(***************************************************************************)
(* run_interactive_session, lines 691-702                                  *)
(***************************************************************************)
\* the refresh between tasks emptying the product list
Refresh_ClearsProducts ==
    /\ pc = "between"
    /\ ti < Len(tasks)
    /\ \/ EnterTask(ti + 1)
       \/ /\ pc' = "aborted"
          /\ UNCHANGED << ti, oi, started >>
    /\ current_products' = << >>
    /\ UNCHANGED << Static, url, cards, stats, dispatched, last >>

\* if i < len(tasks): driver.refresh(), which may raise
Refresh ==
    /\ pc = "between"
    /\ ti < Len(tasks)
    /\ \/ EnterTask(ti + 1)
       \/ /\ pc' = "aborted"
          /\ UNCHANGED << ti, oi, started >>
    /\ UNCHANGED << Static, url, cards, current_products, stats, dispatched, last >>

LoopEnd ==
    /\ pc = "between"
    /\ ti = Len(tasks)
    /\ pc' = "summary"
    /\ UNCHANGED << Static, ti, oi, started, url, cards, current_products,
                    stats, dispatched, last >>

\* TiraAutomation.cleanup
cleanup(d) == IF d # "none" THEN "quit" ELSE d

\* the divisor without the guard against 0
Divisor_NoMax(actions) == actions

\* max(stats['actions'], 1)
Divisor(actions) == IF actions > 1 THEN actions ELSE 1

\* n / d rounded to the nearest integer, ties to even
RoundDiv(n, d) ==
    LET q == n \div d
        r == n % d
    IN  IF 2 * r > d \/ (2 * r = d /\ q % 2 = 1) THEN q + 1 ELSE q

\* success / divisor * 100 printed with one decimal, in tenths of a percent
success_rate(st, d) == RoundDiv(st.success * 1000, d)

\* the final statistics, then self.automation.cleanup(); a division by 0
\* raises and leaves run_interactive_session
Finish ==
    /\ pc = "summary"
    /\ IF Divisor(stats.actions) = 0
       THEN /\ pc' = "aborted"
            /\ summary' = [ summary EXCEPT !.error = TRUE ]
            /\ UNCHANGED driver
       ELSE /\ pc' = "done"
            /\ summary' = [ emitted |-> TRUE, error |-> FALSE,
                            actions |-> stats.actions,
                            rate |-> success_rate(stats, Divisor(stats.actions)),
                            cart_items |-> stats.cart_items ]
            /\ driver' = cleanup(driver)
    /\ UNCHANGED << persona, llm, tasks, ti, oi, started, url, cards,
                    current_products, stats, dispatched, last >>

Next ==
    \/ Generate
    \/ setup_browser
    \/ search_products
    \/ extract_products
    \/ hover_add_to_cart
    \/ view_cart
    \/ remove_from_cart
    \/ complete_session
    \/ SkipUnrecognised
    \/ StepRaises
    \/ Refresh
    \/ LoopEnd
    \/ Finish

Spec == Init /\ [][Next]_vars

(***************************************************************************)
(* Persona creation and rule-based generation on their own: the persona    *)
(* is typed in (traits, decision style), create_custom_persona classifies  *)
(* it, and _rule_generate_tasks builds its tasks.                          *)
(***************************************************************************)
TraitLists == UNION { [1..k -> TraitWords] : k \in 1..MaxTraits }

PersonaInit ==
    /\ persona \in { [ MakePersona(tr, st, <<500, 5000>>) EXCEPT !.type = "unset" ] :
                        tr \in TraitLists, st \in AllDecisionStyles }
    /\ llm = [ kind |-> "none", has_tasks |-> FALSE, tasks |-> << >> ]
    /\ tasks = << >>
    /\ pc = "draft"
    /\ ti = 0
    /\ oi = 0
    /\ driver = "none"
    /\ url = "none"
    /\ cards = << >>
    /\ current_products = << >>
    /\ stats = [ actions |-> 0, success |-> 0, cart_items |-> 0 ]
    /\ dispatched = 0
    /\ started = {}
    /\ last = NoStep
    /\ summary = NoSummary

\* persona_type = PersonaCreator._determine_persona_type(traits, decision_style)
CreatePersona ==
    /\ pc = "draft"
    /\ persona' = [ persona EXCEPT !.type =
                       _determine_persona_type(persona.personality_traits,
                                               persona.decision_style) ]
    /\ pc' = "created"
    /\ UNCHANGED << llm, tasks, ti, oi, driver, url, cards, current_products,
                    stats, dispatched, started, last, summary >>

\* generate_shopping_tasks with no client configured
RuleGenerate ==
    /\ pc = "created"
    /\ tasks' = generate_shopping_tasks(persona, llm).tasks
    /\ pc' = "ruled"
    /\ UNCHANGED << persona, llm, ti, oi, driver, url, cards, current_products,
                    stats, dispatched, started, last, summary >>

PersonaNext == CreatePersona \/ RuleGenerate

PersonaSpec == PersonaInit /\ [][PersonaNext]_vars

Terminal == pc \in { "done", "aborted", "gen_raised" }

TypeOK ==
    /\ persona \in Personas
    /\ llm \in LLMResponses
    /\ summary.rate \in Nat
    /\ pc \in { "start", "gen_raised", "generated", "exec", "between", "summary", "done", "aborted" }
    /\ driver \in { "none", "open", "quit" }
    /\ url \in { "none", "homepage", "search_results", "cart" }
    /\ cards \in Pages \cup HomePages
    /\ stats.actions \in Nat /\ stats.success \in Nat /\ stats.cart_items \in Int
    /\ dispatched \in Nat

(***************************************************************************)
(* Properties                                                              *)
(***************************************************************************)
Generated == pc \notin { "start", "gen_raised" }

SetupSucceeded == url # "none"

NoClient == [ kind |-> "none", has_tasks |-> FALSE, tasks |-> << >> ]

\* the latest step ran hover_add_to_cart to its return, on a targeted product
\* that is over budget
TargetOverBudget ==
    /\ last.op = "hover_add_to_cart"
    /\ last.result # "uncaught"
    /\ Len(current_products) >= 1
    /\ current_products[1].price > persona.budget_range[2]

\* C1: after N dispatched operations stats['actions'] = N, and
\* 0 <= stats['success'] <= stats['actions'].
C1_CountersInvariant ==
    /\ stats.actions = dispatched
    /\ 0 <= stats.success
    /\ stats.success <= stats.actions

\* C2: a quick-add whose targeted product costs more than budget_range[1]
\* fails with 'Over budget' and leaves the cart count as it was.
C2_BudgetGate ==
    TargetOverBudget =>
        /\ last.result = "Over budget"
        /\ ~last.clicked
        /\ stats.cart_items = last.before.cart_items

C2_Witness ==
    /\ TargetOverBudget
    /\ last.result = "Over budget"
    /\ current_products[1].price = 6000

\* C3: the cart count is never negative, and a successful removal at count 0
\* leaves it at 0.
C3_CartNonNegative ==
    /\ stats.cart_items >= 0
    /\ (last.op = "remove_from_cart" /\ last.result = "success"
          /\ last.before.cart_items = 0) => stats.cart_items = 0

C3_Witness ==
    /\ last.op = "remove_from_cart"
    /\ last.result = "success"
    /\ last.before.cart_items = 0
    /\ stats.cart_items = 0

\* C4 as claimed: a removal that finds no remove button fails with 'No items
\* to remove', clicks nothing and leaves the cart count at 0.
C4_Original ==
    (last.op = "remove_from_cart" /\ last.page = "no_buttons") =>
        /\ last.result = "No items to remove"
        /\ ~last.clicked
        /\ stats.cart_items = 0

\* C4 as amended: a removal that finds no remove button fails with 'No items
\* to remove', clicks nothing and leaves the cart count as it was (at 0 when
\* it was 0).
C4_NothingToRemove ==
    (last.op = "remove_from_cart" /\ last.page = "no_buttons") =>
        /\ last.result = "No items to remove"
        /\ ~last.clicked
        /\ stats.cart_items = last.before.cart_items

C4_Witness ==
    /\ last.op = "remove_from_cart"
    /\ last.page = "no_buttons"
    /\ last.result = "No items to remove"
    /\ last.before.cart_items = 1
    /\ stats.cart_items = 1

\* C5: whatever the capability does, generation returns a non-empty list.
C5_NonEmptyTasks ==
    pc # "start" => (pc # "gen_raised" /\ Len(tasks) >= 1)

\* C6: every operation name of every generated task is a key of the catalog.
C6_NamesInCatalog ==
    Generated =>
        \A i \in 1..Len(tasks) :
            \A j \in 1..Len(tasks[i].expected_functions) :
                tasks[i].expected_functions[j] \in get_catalog

\* C7: with a capability that throws, generation returns the list it returns
\* with no capability configured, and the failure does not reach the caller.
C7_FallbackEquivalence ==
    (pc # "start" /\ llm.kind = "throw") =>
        /\ pc # "gen_raised"
        /\ tasks = generate_shopping_tasks(persona, NoClient).tasks

C7_Witness ==
    /\ pc = "generated"
    /\ llm.kind = "throw"
    /\ Len(tasks) = 2
    /\ tasks[2].task_name = "Budget-Conscious Shopping"

\* C8: an operation that raises out of its handler is counted as a failure
\* and the loop goes on with the next operation of the same task.
C8_FailureContained ==
    last.result = "uncaught" =>
        /\ stats.actions = last.before.actions + 1
        /\ stats.success = last.before.success
        /\ last.pos[2] < Len(tasks[last.pos[1]].expected_functions) =>
             (pc = "exec" /\ ti = last.pos[1] /\ oi = last.pos[2] + 1)

\* C9: once the browser is set up the session ends in done, with every task
\* started.
C9_RunsToCompletion ==
    (Terminal /\ SetupSucceeded) =>
        /\ pc = "done"
        /\ started = 1..Len(tasks)

\* C10: no session ends with a browser that was acquired and not released.
C10_BrowserReleased ==
    Terminal => driver # "open"

\* the tasks of the persona, as the rule-based generator is described
PrimaryTask(p) ==
    IF p.decision_style = "quick_impulsive"
    THEN LLMTask("Quick Product Discovery",
                 <<"search_products", "extract_products", "hover_add_to_cart">>)
    ELSE LLMTask("Careful Product Research",
                 <<"search_products", "extract_products", "click_product_details">>)

BudgetTask ==
    LLMTask("Budget-Conscious Shopping", <<"search_products", "view_cart">>)

\* C14 as claimed: the primary task by decision style, then the budget task
\* iff the traits hold one of the terms that classify a budget shopper.
C14_Original ==
    pc = "ruled" =>
        /\ Len(tasks) >= 1
        /\ tasks[1] = PrimaryTask(persona)
        /\ Len(tasks) = (IF persona.type = "budget_shopper" THEN 2 ELSE 1)
        /\ Len(tasks) = 2 => tasks[2] = BudgetTask

\* C14 as amended: the primary task by decision style, then the budget task
\* iff the lower-cased traits contain "budget"; cheap, affordable and price
\* classify a budget shopper and add no task.
C14_RuleGeneration ==
    pc = "ruled" =>
        /\ Len(tasks) >= 1
        /\ tasks[1] = PrimaryTask(persona)
        /\ Len(tasks) =
             (IF \E i \in 1..Len(persona.personality_traits) :
                    "budget" \in SubKeywords(Lower(persona.personality_traits[i]))
              THEN 2 ELSE 1)
        /\ Len(tasks) = 2 => tasks[2] = BudgetTask

C14_Witness ==
    /\ pc = "ruled"
    /\ persona.personality_traits = << "cheap", "Budget-conscious" >>
    /\ persona.decision_style = "quick_impulsive"
    /\ Len(tasks) = 2

\* the keyword groups in their priority order, with their categories
KeywordGroups ==
    << << { "budget", "cheap", "affordable", "price" }, "budget_shopper" >>,
       << { "luxury", "premium", "high-end", "quality" }, "luxury_buyer" >>,
       << { "indecis", "uncertain", "changeable" }, "indecisive_shopper" >>,
       << { "beauty", "makeup", "trendy", "impulsive" }, "beauty_enthusiast" >>,
       << { "skincare", "routine", "organic" }, "skincare_focused" >>,
       << { "gift", "birthday", "present" }, "gift_shopper" >> >>

\* the groups of which some keyword occurs in some trait
GroupsIn(traits) ==
    { g \in 1..Len(KeywordGroups) :
        \E i \in 1..Len(traits) :
            SubKeywords(Lower(traits[i])) \cap KeywordGroups[g][1] # {} }

HighestPriority(traits) ==
    IF GroupsIn(traits) = {} THEN "custom"
    ELSE KeywordGroups[CHOOSE g \in GroupsIn(traits) :
                         \A h \in GroupsIn(traits) : g <= h][2]

Reverse(sq) == [ i \in 1..Len(sq) |-> sq[Len(sq) + 1 - i] ]

C11_EarlyExit ==
    (last.op = "complete_session" /\ last.result = "success") =>
        /\ pc # "aborted"
        /\ ti = last.pos[1] => pc \in { "between", "summary", "done" }
        /\ pc = "exec" => (ti = last.pos[1] + 1 /\ oi = 1)

\* the session of the quick-impulsive persona with budget (500, 5000) and no
\* text-generation client has run its one task [search, extract, quick-add]
\* to the end on the page given, every page call succeeding
ScenarioDone(page) ==
    /\ pc = "done"
    /\ llm.kind = "none"
    /\ persona.decision_style = "quick_impulsive"
    /\ persona.budget_range = << 500, 5000 >>
    /\ persona.interests = << "lipstick" >>
    /\ tasks = << LLMTask("Quick Product Discovery",
                          << "search_products", "extract_products",
                             "hover_add_to_cart" >>) >>
    /\ url = "search_results"
    /\ cards = page
    /\ last.op = "hover_add_to_cart"
    /\ last.pos = << 1, 3 >>
    /\ last.page = "button"
    /\ last.prev = << "extract_products", "success" >>

\* C12: with one product priced 1200 the session ends with one cart item and
\* three successes.
C12_InBudgetScenario ==
    ScenarioDone(<< Card("Matte Lipstick", T1200) >>) =>
        /\ stats.cart_items = 1
        /\ stats.success = 3

\* C13: with one product priced 6000 the quick-add fails over budget and the
\* session ends with no cart item, two successes and three attempts.
C13_OverBudgetScenario ==
    ScenarioDone(<< Card("Night Serum", T6000) >>) =>
        /\ last.result = "Over budget"
        /\ stats.cart_items = 0
        /\ stats.success = 2
        /\ stats.actions = 3

\* names and prices of the products, without the element handles
ProductsView(ps) ==
    [ i \in 1..Len(ps) |-> [ name |-> ps[i].name, price |-> ps[i].price ] ]

\* C16: a successful extract right after a successful extract leaves the
\* same products (names, prices, order) and the same cart count.
C16_ExtractIdempotent ==
    [][ ( /\ pc = "exec"
          /\ last.op = "extract_products" /\ last.result = "success"
          /\ last'.op = "extract_products" /\ last'.result = "success" )
        => /\ ProductsView(current_products') = ProductsView(current_products)
           /\ stats'.cart_items = stats.cart_items ]_vars

C16_Witness ==
    /\ last.op = "extract_products"
    /\ last.result = "success"
    /\ last.prev = << "extract_products", "success" >>
    /\ Len(current_products) >= 2

\* C17: the summary never fails on its division; the rate is successes over
\* max(attempts, 1) to the nearest tenth of a percent, 0 when nothing was
\* counted, and at most 100%.
C17_SuccessRate ==
    /\ ~summary.error
    /\ pc = "done" =>
         LET d == IF stats.actions = 0 THEN 1 ELSE stats.actions
             e == summary.rate * d - 1000 * stats.success
         IN  /\ summary.emitted
             /\ 2 * e <= d /\ -2 * e <= d
             /\ stats.actions = 0 => summary.rate = 0
             /\ summary.rate <= 1000

C17_Witness ==
    /\ pc = "done"
    /\ summary.emitted
    /\ stats.actions = 0
    /\ dispatched > 0
    /\ summary.rate = 0

\* C18: every name of the catalog is dispatched to a handler, and
\* click_product_details leaves the product-details page and the cart count
\* as it was.
C18_DispatchCoverage ==
    (last.op \in get_catalog /\ last.result # "uncaught") =>
        /\ last.result # "skipped"
        /\ last.op = "click_product_details" =>
             (url = "product_details" /\ stats.cart_items = last.before.cart_items)

\* the names _execute_task compares function_name with
RecognisedNames ==
    { "search_products", "extract_products", "hover_add_to_cart",
      "view_cart", "remove_from_cart", "complete_session" }

\* C19: a name the engine does not recognise is skipped: counters, cart
\* count, products and page stay as they are and the loop goes on with the
\* next operation of the same task.
C19_SkipFrame ==
    [][ ( /\ pc = "exec"
          /\ \/ last'.result = "skipped"
             \/ (CurOp \notin RecognisedNames /\ last'.result # "uncaught") )
        => /\ last'.result = "skipped"
           /\ CurOp \notin RecognisedNames
           /\ stats' = stats
           /\ current_products' = current_products
           /\ url' = url
           /\ ti' = ti
           /\ IF oi < Len(tasks[ti].expected_functions)
              THEN pc' = "exec" /\ oi' = oi + 1
              ELSE pc' = "between" ]_vars

C19_Witness ==
    /\ last.result = "skipped"
    /\ last.op = "compare_prices"
    /\ pc = "exec"
    /\ ti = last.pos[1]
    /\ oi = last.pos[2] + 1

\* C20: a quick-add adds exactly one to the cart count when it succeeds, and
\* succeeds exactly when the index is valid, the price is within the budget
\* and the add button is found and clicked; otherwise the count is unchanged,
\* and an index outside the products fails as invalid.
C20_QuickAdd ==
    (last.op = "hover_add_to_cart" /\ last.result # "uncaught") =>
        LET valid == Len(current_products) >= 1
            affordable == valid /\ current_products[1].price <= persona.budget_range[2]
        IN  /\ last.result = "success" <=> (affordable /\ last.page = "button")
            /\ last.clicked <=> last.result = "success"
            /\ stats.cart_items =
                 last.before.cart_items + (IF last.result = "success" THEN 1 ELSE 0)
            /\ ~valid => last.result = "Invalid product index"

C20_Witness ==
    /\ last.op = "hover_add_to_cart"
    /\ last.result = "success"
    /\ current_products[1].price = 5000
    /\ stats.cart_items = last.before.cart_items + 1

\* the operation at a position ended the loop of its task
EndedTask(step) == step.op = "complete_session" \/ step.result = "uncaught"

\* C21: operations run one at a time in list order: when the loop is about
\* to run position oi of task ti, every task up to ti and no later one has
\* been started, the operation before it in the task is the latest one run
\* and did not end the task, and at the first position the latest one run
\* belongs to an earlier task; so no position is run twice and a failed
\* operation is not retried.
C21_OrderNoRetry ==
    pc = "exec" =>
        /\ started = 1..ti
        /\ oi \in 1..Len(tasks[ti].expected_functions)
        /\ IF oi > 1
           THEN last.pos = << ti, oi - 1 >> /\ ~EndedTask(last)
           ELSE last.op = "none" \/ last.pos[1] < ti

C21_Witness ==
    /\ pc = "exec"
    /\ ti = 2
    /\ oi = 2
    /\ last.pos = << 2, 1 >>
    /\ last.result = "exception"
    /\ last.prev[2] = "No items to remove"

\* the loop is about to run the first operation of a task after the first
LaterTaskStarts == pc = "exec" /\ ti > 1 /\ oi = 1

\* C22: after the refresh between two tasks the browser is on the page the
\* session started on, wherever the earlier task ended.
C22_RefreshNormalises ==
    LaterTaskStarts => url = "homepage"

\* the number of displayed cards of the page before card e
ShownBefore(e) == Cardinality({ j \in 1..(e - 1) : cards[j].displayed })

\* C23: the product list never holds more than 6 entries, and after a
\* successful extract it holds products of the cards now on the page only:
\* each entry is a displayed card of the page, one of its first 6, with that
\* card's name and its rank among the displayed cards, in page order and
\* without repetition.
C23_CappedReplaced ==
    /\ Len(current_products) <= 6
    /\ (last.op = "extract_products" /\ last.result = "success") =>
         /\ \A i \in 1..Len(current_products) :
              LET prod == current_products[i]
              IN  /\ prod.element \in 1..Len(cards)
                  /\ cards[prod.element].displayed
                  /\ prod.name = cards[prod.element].name \o "..."
                  /\ prod.index = ShownBefore(prod.element)
                  /\ prod.index < 6
         /\ \A i, j \in 1..Len(current_products) :
              i < j => current_products[i].element < current_products[j].element

C23_Witness ==
    /\ last.op = "extract_products"
    /\ last.result = "success"
    /\ last.prev = << "extract_products", "success" >>
    /\ Len(cards) = 7
    /\ Len(current_products) = 6

\* the cards extract_products looks at: the first 6 displayed ones
LookedAt(e) == e \in 1..Len(cards) /\ cards[e].displayed /\ ShownBefore(e) < 6

\* the price text has a currency sign followed by digits
Numeric(t) == \E j \in 1..Len(t) : t[j] = "RUPEE" /\ IsDigitAt(t, SkipSpaces(t, j + 1))

\* C24: after a successful extract every card looked at that has a name is
\* in the product list, with price 0 when its price is missing or not
\* numeric; a card is left out only when it has no name.
C24_PriceDefault ==
    (last.op = "extract_products" /\ last.result = "success") =>
        \A e \in 1..Len(cards) :
            (LookedAt(e) /\ cards[e].has_name) =>
                \E i \in 1..Len(current_products) :
                    /\ current_products[i].element = e
                    /\ (~cards[e].has_price \/ ~Numeric(cards[e].price_text))
                          => current_products[i].price = 0

\* C25: view_cart leaves the cart count as it was, whatever number of items
\* the cart page shows, and counts one action; the page's count is only
\* reported.
C25_ViewCartFrame ==
    (last.op = "view_cart" /\ last.result # "uncaught") =>
        /\ stats.cart_items = last.before.cart_items
        /\ stats.actions = last.before.actions + 1
        /\ last.item_count \in 0..MaxObserved <=> last.result = "success"

C25_Witness ==
    /\ last.op = "view_cart"
    /\ last.result = "success"
    /\ last.item_count = 0
    /\ stats.cart_items = 1

\* C26: only a successful extract changes the product list: every other
\* step (another operation, a failed extract, a skipped name, the refresh
\* between tasks, the summary) leaves it as it was.
C26_ProductsFrame ==
    [][ current_products' # current_products
        => /\ pc = "exec"
           /\ CurOp = "extract_products"
           /\ last'.op = "extract_products"
           /\ last'.pos = << ti, oi >>
           /\ last'.result = "success" ]_vars

\* a quick-add as the only operation of the second task finds the product
\* the first task extracted, and refuses it for its price
C26_Witness ==
    /\ last.op = "hover_add_to_cart"
    /\ last.pos = << 2, 1 >>
    /\ last.result = "Over budget"
    /\ tasks[2].expected_functions = << "hover_add_to_cart" >>
    /\ Len(current_products) = 2
    /\ current_products[1].price = 6000

=============================================================================
